---- MODULE Spec2Model ----
(***************************************************************************)
(* The migration checkpoint log of jobsdb (jobsdb_migration_events.go):    *)
(* the checkpoint table, the statements CheckpointInTxn runs against it,   *)
(* the reads GetCheckpoints / GetSetupCheckpoint / getSeqNoForFileFromDB,  *)
(* and the setup resolver findOrCreateDsFromSetupCheckpoint, step by step, *)
(* with process aborts (panic) and crashes.                                *)
(***************************************************************************)
EXTENDS Integers, Sequences, FiniteSets, TLC

VARIABLES
    table,      \* rows of the <prefix>_migration_checkpoints table
    nextId,     \* next value of the BIGSERIAL sequence behind column id
    now,        \* the wall clock, as time.Now() reads it
    dsCount,    \* the datasets of the store are 1..dsCount
    setupDs,    \* datasets the Dataset Selector created during a setup
    procOf,     \* the threads of the deployment and the process of each
    pc,         \* per thread: position inside findOrCreateDsFromSetupCheckpoint
    loc,        \* per thread: the locals of findOrCreateDsFromSetupCheckpoint
    dsListLock, \* per process: the holder of jd.dsListLock, or NoThread
    direct,     \* history: a call wrote a setup status by id, or under a
                \* FileLocation other than the one NewSetupCheckpointEvent gives
    last,       \* the last call that ended: its arguments and what it returned
    startUploadAlways,   \* warehouse: the flag rudder-cli sets
    nextRetryTimeCache,  \* warehouse: connectionString(warehouse) -> next retry time
    uploads,             \* warehouse: Status, LastAttemptAt and Attempts of each upload
    whLast,              \* the last call of canStartPendingUpload: the upload as it
                         \* was given, the time and what the call returned
    scheduledTimesCache, \* warehouse: "syncFrequency-syncStartAt" -> []int
    schedPc,             \* position inside ScheduledTimes / GetPrevScheduledTime
    schedArgs,           \* the arguments of the call under way
    schedLocals,         \* the locals of ScheduledTimes
    schedLast            \* the last call that returned: arguments and results

\* the schedule of a warehouse (ScheduledTimes, GetPrevScheduledTime)
scheduleVars == <<scheduledTimesCache, schedPc, schedArgs, schedLocals, schedLast>>

\* the state of the warehouse scheduler (scheduling.go)
warehouseVars == <<startUploadAlways, nextRetryTimeCache, uploads, whLast, scheduleVars>>

vars == <<table, nextId, now, dsCount, setupDs, procOf, pc, loc, dsListLock, direct, last,
          warehouseVars>>

----------------------------------------------------------------------------
(* Bounds of the model *)

\* ids the sequence may hand out
MaxId == 3
\* datasets the store may hold
MaxDs == 3
\* characters of a file location given to the sequence accountant
MaxLen == 5
\* bits of an int64, scaled down: the values are -2^(IntWidth-1) .. 2^(IntWidth-1)-1
IntWidth == 8
\* the clock of the warehouse scheduler stops here
MaxTime == 6
\* entries of []int the memory of the process holds
MaxTimes == 10
\* entries scheduledTimesCache is given
MaxCache == 1
\* attempts an upload is given
MaxAttempts == 3
\* Warehouse.minUploadBackoffInS and Warehouse.maxUploadBackoffInS, in units of
\* the clock
minUploadBackoff == 1
maxUploadBackoff == 3

----------------------------------------------------------------------------
(* ENUM values *)

ExportOp == "export"
ImportOp == "import"
AcceptNewEventsOp == "acceptNewEvents"

SetupForExport == "setup_for_export"
Exported == "exported"
Notified == "notified"
Completed == "completed"
SetupToAcceptNewEvents == "setup_to_accept_new_events"
SetupForImport == "setup_for_import"
PreparedForImport == "prepared_for_import"
Imported == "imported"

MigrationTypes == {ExportOp, ImportOp, AcceptNewEventsOp}

\* a migration type no constant names
UnknownOp == "unknown"

\* misc.GetNodeID()
NodeID == "node1"

\* json: the empty object "{}" and an object as its <<key, value>> members
EmptyObject == <<>>

\* json.Marshal of a dataSetT (the Index stands for the dataset's tables too)
Marshal(ds) == << <<"Index", ds.Index>> >>

\* dataSetT{}: the zero value
ZeroDs == [Index |-> 0]

\* json.Unmarshal into a dataSetT{}: members the object lacks stay zero
Unmarshal(p) ==
    IF \E i \in 1..Len(p) : p[i][1] = "Index"
    THEN [Index |-> p[CHOOSE i \in 1..Len(p) : p[i][1] = "Index"][2]]
    ELSE ZeroDs

----------------------------------------------------------------------------
(* MigrationEvent and the rows of the checkpoint table *)

NewMigrationEvent(migrationType, fromNode, toNode, fileLocation, status, startSeq, t) ==
    [ID |-> 0, MigrationType |-> migrationType, FromNode |-> fromNode,
     ToNode |-> toNode, FileLocation |-> fileLocation, Status |-> status,
     StartSeq |-> startSeq, Payload |-> EmptyObject, TimeStamp |-> t]

\* case ExportOp / AcceptNewEventsOp / ImportOp of NewSetupCheckpointEvent
NewSetupCheckpointEvent(migrationType, node, t) ==
    CASE migrationType = ExportOp ->
           NewMigrationEvent(migrationType, node, "All", SetupForExport, SetupForExport, 0, t)
      [] migrationType = AcceptNewEventsOp ->
           NewMigrationEvent(migrationType, "All", node, SetupToAcceptNewEvents, SetupToAcceptNewEvents, 0, t)
      [] migrationType = ImportOp ->
           NewMigrationEvent(migrationType, "All", node, SetupForImport, SetupForImport, 0, t)

\* rows.Scan of one row into a MigrationEvent
ScanEvent(r) ==
    [ID |-> r.id, MigrationType |-> r.migration_type, FromNode |-> r.from_node,
     ToNode |-> r.to_node, FileLocation |-> r.file_location, Status |-> r.status,
     StartSeq |-> r.start_sequence, Payload |-> r.payload, TimeStamp |-> r.time_stamp]

\* the row INSERT ... VALUES ($1..$8) writes, with the id the sequence gives
InsertedRow(e, id, t) ==
    [id |-> id, migration_type |-> e.MigrationType, from_node |-> e.FromNode,
     to_node |-> e.ToNode, file_location |-> e.FileLocation, status |-> e.Status,
     start_sequence |-> e.StartSeq, payload |-> e.Payload, time_stamp |-> t]

----------------------------------------------------------------------------
(* The statements of CheckpointInTxn *)

\* jd.assert(cond, msg) panics when cond is false
AssertPanics(cond) == ~cond

\* jd.assertError(err) panics when err is not nil
AssertErrorPanics(isErr) == isErr

\* mutant: the assert lets every migration type through
AnyCheckpointType(migrationType) == TRUE

\* the condition jd.assert checks on the migration type
SupportedCheckpointType(migrationType) ==
    \/ migrationType = ExportOp
    \/ migrationType = ImportOp
    \/ migrationType = AcceptNewEventsOp

\* UPDATE ... SET status = $1, start_sequence = $2 WHERE id = $3: the rows after it
UpdateRows(tbl, e) ==
    {IF r.id = e.ID
       THEN [r EXCEPT !.status = e.Status, !.start_sequence = e.StartSeq]
       ELSE r : r \in tbl}

\* ... RETURNING id: the ids the UPDATE returns
UpdateReturning(tbl, e) == {r.id : r \in {x \in tbl : x.id = e.ID}}

\* the rows a new row conflicts with on the UNIQUE column file_location
ConflictRows(tbl, e) == {r \in tbl : r.file_location = e.FileLocation}

\* mutant: file_location is not UNIQUE, every INSERT adds its row
UpsertRowsAlwaysInsert(tbl, e, id, t) == tbl \cup {InsertedRow(e, id, t)}

\* mutant: the conflicting row is deleted and the proposed row takes its place
UpsertRowsReplace(tbl, e, id, t) == (tbl \ ConflictRows(tbl, e)) \cup {InsertedRow(e, id, t)}

\* mutant: ON CONFLICT (file_location) DO NOTHING
UpsertRowsDoNothing(tbl, e, id, t) ==
    IF ConflictRows(tbl, e) = {} THEN tbl \cup {InsertedRow(e, id, t)} ELSE tbl

\* mutant: the conflict branch also takes start_sequence and time_stamp
\* from the proposed row
UpsertRowsMoreColumns(tbl, e, id, t) ==
    IF ConflictRows(tbl, e) = {}
    THEN tbl \cup {InsertedRow(e, id, t)}
    ELSE {IF r \in ConflictRows(tbl, e)
            THEN [r EXCEPT !.status = e.Status, !.start_sequence = e.StartSeq,
                           !.time_stamp = t]
            ELSE r : r \in tbl}

\* INSERT ... ON CONFLICT (file_location) DO UPDATE SET status=EXCLUDED.status:
\* the rows after it; id is the value the sequence gave the proposed row
UpsertRows(tbl, e, id, t) ==
    IF ConflictRows(tbl, e) = {}
    THEN tbl \cup {InsertedRow(e, id, t)}
    ELSE {IF r \in ConflictRows(tbl, e)
            THEN [r EXCEPT !.status = e.Status]
            ELSE r : r \in tbl}

\* ... RETURNING id: the ids the INSERT returns
UpsertReturning(tbl, e, id) ==
    IF ConflictRows(tbl, e) = {} THEN {id} ELSE {r.id : r \in ConflictRows(tbl, e)}

\* QueryRow(...).Scan(&meID): meID keeps 0 when no row came back (sql.ErrNoRows)
ScanId(ids) == IF ids = {} THEN 0 ELSE CHOOSE i \in ids : TRUE

----------------------------------------------------------------------------
(* Threads, processes and the record of the last call *)

NoThread == "none"
Nil == "nil"
Tx == "tx"

NoEvent == NewMigrationEvent("", "", "", "", "", 0, 0)

\* the call of findOrCreateDsFromSetupCheckpoint that ended right before a call
NoCallBefore == [called |-> FALSE, path |-> "", ds |-> ZeroDs]

NoLast ==
    [op |-> "none", path |-> "", fatal |-> FALSE, txn |-> Nil,
     ev |-> NoEvent, ret |-> 0, events |-> <<>>, ds |-> ZeroDs, before |-> NoCallBefore]

\* the record of a call that ended (fatal: in a panic)
Ended(op, path, fatal, txn, ev, ret, events, ds) ==
    [op |-> op, path |-> path, fatal |-> fatal, txn |-> txn,
     ev |-> ev, ret |-> ret, events |-> events, ds |-> ds, before |-> NoCallBefore]

NoLocals == [migrationType |-> "", dsList |-> 0, setupEvent |-> NoEvent,
             me |-> NoEvent, payload |-> ZeroDs, path |-> "", before |-> NoCallBefore]

Threads == DOMAIN procOf

\* a panic nobody recovers ends the process: its threads are gone, the deferred
\* Unlock has run, and the restarted process starts with its threads idle
AbortedPc(p) == [t \in Threads |-> IF procOf[t] = p THEN "idle" ELSE pc[t]]
AbortedLoc(p) == [t \in Threads |-> IF procOf[t] = p THEN NoLocals ELSE loc[t]]
AbortedLock(p) == [dsListLock EXCEPT ![p] = NoThread]

Abort(p) ==
    /\ pc' = AbortedPc(p)
    /\ loc' = AbortedLoc(p)
    /\ dsListLock' = AbortedLock(p)

----------------------------------------------------------------------------
(* Checkpoint and CheckpointInTxn *)

SetupStatuses == {SetupForExport, SetupToAcceptNewEvents, SetupForImport}

\* the event carries a setup status, and is not one NewSetupCheckpointEvent
\* builds (ID = 0, the status as FileLocation)
WritesSetupDirectly(e) ==
    /\ e.Status \in SetupStatuses
    /\ (e.ID > 0 \/ e.FileLocation # e.Status)

\* The statement runs on jd.dbHandle (txn = Nil) or inside the caller's
\* transaction (txn = Tx), which the caller then commits.  The INSERT draws its
\* id from the sequence whether or not it ends in the conflict branch, and binds
\* time.Now().  A panic (a failed jd.assert, jd.assertError on sql.ErrNoRows)
\* ends the process.
CheckpointInTxn(t, txn, e) ==
    /\ pc[t] = "idle"
    /\ e.ID = 0 => nextId <= MaxId
    /\ UNCHANGED <<dsCount, setupDs, procOf, warehouseVars>>
    /\ direct' = (direct \/ (SupportedCheckpointType(e.MigrationType) /\ WritesSetupDirectly(e)))
    /\ IF AssertPanics(SupportedCheckpointType(e.MigrationType))
       THEN /\ Abort(procOf[t])
            /\ UNCHANGED <<table, nextId, now>>
            /\ last' = Ended("Checkpoint", "unsupported", TRUE, txn, e, 0, <<>>, ZeroDs)
       ELSE IF e.ID > 0
       THEN LET meID == ScanId(UpdateReturning(table, e)) IN
            /\ table' = UpdateRows(table, e)
            /\ UNCHANGED <<nextId, now>>
            /\ IF txn = Nil /\ AssertErrorPanics(UpdateReturning(table, e) = {})
               THEN /\ Abort(procOf[t])
                    /\ last' = Ended("Checkpoint", "norow", TRUE, txn, e, 0, <<>>, ZeroDs)
               ELSE /\ UNCHANGED <<pc, loc, dsListLock>>
                    /\ last' = Ended("Checkpoint",
                                      IF UpdateReturning(table, e) = {} THEN "norow" ELSE "update",
                                      FALSE, txn, e, meID, <<>>, ZeroDs)
       ELSE LET meID == ScanId(UpsertReturning(table, e, nextId)) IN
            /\ table' = UpsertRows(table, e, nextId, now)
            /\ nextId' = nextId + 1
            /\ now' = now + 1
            /\ UNCHANGED <<pc, loc, dsListLock>>
            /\ last' = Ended("Checkpoint",
                              IF ConflictRows(table, e) = {} THEN "insert" ELSE "conflict",
                              FALSE, txn, e, meID, <<>>, ZeroDs)

Checkpoint(t, e) == CheckpointInTxn(t, Nil, e)

\* where the store reports an error to CheckpointInTxn
PrepareError == "prepareError"
ExecError == "execError"

\* CheckpointInTxn when the store reports an error: on Prepare (txn.Prepare or
\* jd.dbHandle.Prepare), where jd.assertError(err) follows whatever txn is, or
\* on QueryRow(...).Scan(&meID), where jd.assertError(err) follows only when
\* txn is nil; past it the function returns meID, which Scan left 0.  The
\* failed statement wrote nothing.
CheckpointInTxnStoreError(t, txn, e, failAt) ==
    /\ pc[t] = "idle"
    /\ UNCHANGED <<table, nextId, now, dsCount, setupDs, procOf, warehouseVars, direct>>
    /\ IF AssertPanics(SupportedCheckpointType(e.MigrationType))
       THEN /\ Abort(procOf[t])
            /\ last' = Ended("Checkpoint", "unsupported", TRUE, txn, e, 0, <<>>, ZeroDs)
       ELSE IF failAt = PrepareError
       THEN IF AssertErrorPanics(TRUE)
            THEN /\ Abort(procOf[t])
                 /\ last' = Ended("Checkpoint", PrepareError, TRUE, txn, e, 0, <<>>, ZeroDs)
            ELSE /\ UNCHANGED <<pc, loc, dsListLock>>
                 /\ last' = Ended("Checkpoint", PrepareError, FALSE, txn, e, 0, <<>>, ZeroDs)
       ELSE IF txn = Nil /\ AssertErrorPanics(TRUE)
            THEN /\ Abort(procOf[t])
                 /\ last' = Ended("Checkpoint", ExecError, TRUE, txn, e, 0, <<>>, ZeroDs)
            ELSE /\ UNCHANGED <<pc, loc, dsListLock>>
                 /\ last' = Ended("Checkpoint", ExecError, FALSE, txn, e, ScanId({}), <<>>, ZeroDs)

----------------------------------------------------------------------------
(* The reads *)

\* mutant: WHERE migration_type = $1
MatchingRowsAnyStatus(tbl, migrationType, status) ==
    {r \in tbl : r.migration_type = migrationType}

\* WHERE migration_type = $1 AND status = $2
MatchingRows(tbl, migrationType, status) ==
    {r \in tbl : r.migration_type = migrationType /\ r.status = status}

\* ORDER BY ID ASC
RECURSIVE OrderByIdAsc(_)
OrderByIdAsc(rows) ==
    IF rows = {} THEN <<>>
    ELSE LET first == CHOOSE r \in rows : \A x \in rows : r.id <= x.id
         IN <<first>> \o OrderByIdAsc(rows \ {first})

\* ORDER BY id DESC
RECURSIVE OrderByIdDesc(_)
OrderByIdDesc(rows) ==
    IF rows = {} THEN <<>>
    ELSE LET first == CHOOSE r \in rows : \A x \in rows : r.id >= x.id
         IN <<first>> \o OrderByIdDesc(rows \ {first})

\* GetCheckpoints: the events scanned from the rows the SELECT returns
GetCheckpoints(tbl, migrationType, status) ==
    LET rows == OrderByIdAsc(MatchingRows(tbl, migrationType, status))
    IN [i \in 1..Len(rows) |-> ScanEvent(rows[i])]

\* the switch of GetSetupCheckpoint: setupStatus keeps "" for any other type
SetupStatus(migrationType) ==
    CASE migrationType = ExportOp -> SetupForExport
      [] migrationType = AcceptNewEventsOp -> SetupToAcceptNewEvents
      [] migrationType = ImportOp -> SetupForImport
      [] OTHER -> ""

\* mutant: the lookup never finds the setup event
GetSetupCheckpointNeverFinds(tbl, migrationType) ==
    [panic |-> FALSE, nil |-> TRUE, ev |-> NoEvent]

\* mutant: the first setup event is returned whenever there is one
GetSetupCheckpointFirst(tbl, migrationType) ==
    LET setupEvents == GetCheckpoints(tbl, migrationType, SetupStatus(migrationType))
    IN IF Len(setupEvents) = 0
       THEN [panic |-> FALSE, nil |-> TRUE, ev |-> NoEvent]
       ELSE [panic |-> FALSE, nil |-> FALSE, ev |-> setupEvents[1]]

\* GetSetupCheckpoint: nil, the one setup event, or the panic
\* "More than 1 setup event found"
GetSetupCheckpoint(tbl, migrationType) ==
    LET setupEvents == GetCheckpoints(tbl, migrationType, SetupStatus(migrationType))
    IN CASE Len(setupEvents) = 0 -> [panic |-> FALSE, nil |-> TRUE, ev |-> NoEvent]
         [] Len(setupEvents) = 1 -> [panic |-> FALSE, nil |-> FALSE, ev |-> setupEvents[1]]
         [] OTHER -> [panic |-> TRUE, nil |-> TRUE, ev |-> NoEvent]

\* jd.assert of getSeqNoForFileFromDB: the condition on the migration type
SupportedSeqNoType(migrationType) ==
    \/ migrationType = ExportOp
    \/ migrationType = ImportOp

\* mutant: WHERE file_location = $1
SeqNoForFileAnyType(tbl, fileLocation, migrationType) ==
    LET rows == OrderByIdDesc({r \in tbl : r.file_location = fileLocation})
    IN IF Len(rows) = 0 THEN 0 ELSE rows[1].start_sequence

\* getSeqNoForFileFromDB past its assert: the first row of the SELECT, or 0
\* when rows.Next() found none and Scan fails with "sql: Rows are closed"
SeqNoForFile(tbl, fileLocation, migrationType) ==
    LET rows == OrderByIdDesc({r \in tbl : /\ r.file_location = fileLocation
                                           /\ r.migration_type = migrationType})
    IN IF Len(rows) = 0 THEN 0 ELSE rows[1].start_sequence

\* the arguments of a read, kept in the shape of an event
ReadArgs(migrationType, status, fileLocation) ==
    NewMigrationEvent(migrationType, "", "", fileLocation, status, 0, 0)

GetCheckpointsCall(t, migrationType, status) ==
    /\ pc[t] = "idle"
    /\ last' = Ended("GetCheckpoints", "", FALSE, Nil, ReadArgs(migrationType, status, ""),
                      0, GetCheckpoints(table, migrationType, status), ZeroDs)
    /\ UNCHANGED <<table, nextId, now, dsCount, setupDs, procOf, warehouseVars, pc, loc, dsListLock, direct>>

GetSetupCheckpointCall(t, migrationType) ==
    LET got == GetSetupCheckpoint(table, migrationType) IN
    /\ pc[t] = "idle"
    /\ UNCHANGED <<table, nextId, now, dsCount, setupDs, procOf, warehouseVars, direct>>
    /\ IF got.panic
       THEN /\ Abort(procOf[t])
            /\ last' = Ended("GetSetupCheckpoint", "panic", TRUE, Nil,
                              ReadArgs(migrationType, "", ""), 0, <<>>, ZeroDs)
       ELSE /\ UNCHANGED <<pc, loc, dsListLock>>
            /\ last' = Ended("GetSetupCheckpoint", IF got.nil THEN "nil" ELSE "one", FALSE, Nil,
                              ReadArgs(migrationType, "", ""), 0,
                              IF got.nil THEN <<>> ELSE <<got.ev>>, ZeroDs)

getSeqNoForFileFromDB(t, fileLocation, migrationType) ==
    /\ pc[t] = "idle"
    /\ UNCHANGED <<table, nextId, now, dsCount, setupDs, procOf, warehouseVars, direct>>
    /\ IF AssertPanics(SupportedSeqNoType(migrationType))
       THEN /\ Abort(procOf[t])
            /\ last' = Ended("getSeqNoForFileFromDB", "unsupported", TRUE, Nil,
                              ReadArgs(migrationType, "", fileLocation), 0, <<>>, ZeroDs)
       ELSE /\ UNCHANGED <<pc, loc, dsListLock>>
            /\ last' = Ended("getSeqNoForFileFromDB", "", FALSE, Nil,
                              ReadArgs(migrationType, "", fileLocation),
                              SeqNoForFile(table, fileLocation, migrationType), <<>>, ZeroDs)

----------------------------------------------------------------------------
(* The sequence accountant: getNumberOfJobsFromFileLocation and getLastJobID. *)
(* A file location is the sequence of its characters.                        *)

MaxInt64 == 2^(IntWidth - 1) - 1
MinInt64 == -(2^(IntWidth - 1))

\* int64 arithmetic wraps around
WrapInt64(x) == ((x - MinInt64) % (2^IntWidth)) + MinInt64

Digits == {"0", "1", "2", "3", "4", "5", "6", "7", "8", "9"}

DigitValue(c) ==
    CASE c = "0" -> 0 [] c = "1" -> 1 [] c = "2" -> 2 [] c = "3" -> 3 [] c = "4" -> 4
      [] c = "5" -> 5 [] c = "6" -> 6 [] c = "7" -> 7 [] c = "8" -> 8 [] c = "9" -> 9

\* func fileLocationSplitter(r rune) bool
fileLocationSplitter(r) == r = "_" \/ r = "."

\* strings.FieldsFunc(s, f): the maximal runs of characters f refuses, in
\* order; cur is the run being read at position i
RECURSIVE FieldsFrom(_, _, _)
FieldsFrom(str, i, cur) ==
    IF i > Len(str)
    THEN IF cur = <<>> THEN <<>> ELSE <<cur>>
    ELSE IF fileLocationSplitter(str[i])
         THEN (IF cur = <<>> THEN <<>> ELSE <<cur>>) \o FieldsFrom(str, i + 1, <<>>)
         ELSE FieldsFrom(str, i + 1, Append(cur, str[i]))

FieldsFunc(str) == FieldsFrom(str, 1, <<>>)

\* strconv.ParseUint(s, 10, 64) on a string of digits
RECURSIVE ParseUint(_)
ParseUint(digits) ==
    IF digits = <<>> THEN 0
    ELSE 10 * ParseUint(SubSeq(digits, 1, Len(digits) - 1)) + DigitValue(digits[Len(digits)])

\* strconv.ParseInt(s, 10, 64) with its error dropped: 0 on a syntax error, the
\* nearest int64 on a range error
ParseInt(tok) ==
    LET signed == tok # <<>> /\ tok[1] \in {"+", "-"}
        neg == tok # <<>> /\ tok[1] = "-"
        digits == IF signed THEN Tail(tok) ELSE tok
    IN IF digits = <<>> \/ \E i \in 1..Len(digits) : digits[i] \notin Digits
       THEN 0
       ELSE LET un == ParseUint(digits) IN
            IF ~neg /\ un > MaxInt64 THEN MaxInt64
            ELSE IF neg /\ un > -MinInt64 THEN MinInt64
            ELSE IF neg THEN -un ELSE un

\* getNumberOfJobsFromFileLocation: slicedS[len(slicedS)-2] panics (index out
\* of range) when there are fewer than two fields
getNumberOfJobsFromFileLocation(fileLocation) ==
    LET slicedS == FieldsFunc(fileLocation) IN
    IF Len(slicedS) - 2 < 0
    THEN [panic |-> TRUE, ret |-> 0]
    ELSE [panic |-> FALSE, ret |-> ParseInt(slicedS[Len(slicedS) - 2 + 1])]

\* mutant: getLastJobID without the sentinel for StartSeq 0
getLastJobIDNoSentinel(migrationEvent) ==
    LET n == getNumberOfJobsFromFileLocation(migrationEvent.FileLocation) IN
    IF n.panic THEN [panic |-> TRUE, ret |-> 0]
    ELSE [panic |-> FALSE, ret |-> WrapInt64(WrapInt64(migrationEvent.StartSeq + n.ret) - 1)]

\* func (migrationEvent *MigrationEvent) getLastJobID() int64
getLastJobID(migrationEvent) ==
    IF migrationEvent.StartSeq = 0
    THEN [panic |-> FALSE, ret |-> 0]
    ELSE LET n == getNumberOfJobsFromFileLocation(migrationEvent.FileLocation) IN
         IF n.panic THEN [panic |-> TRUE, ret |-> 0]
         ELSE [panic |-> FALSE, ret |-> WrapInt64(WrapInt64(migrationEvent.StartSeq + n.ret) - 1)]

getNumberOfJobsFromFileLocationCall(t, fileLocation) ==
    LET got == getNumberOfJobsFromFileLocation(fileLocation) IN
    /\ pc[t] = "idle"
    /\ UNCHANGED <<table, nextId, now, dsCount, setupDs, procOf, warehouseVars, direct>>
    /\ IF got.panic THEN Abort(procOf[t]) ELSE UNCHANGED <<pc, loc, dsListLock>>
    /\ last' = Ended("getNumberOfJobsFromFileLocation", "", got.panic, Nil,
                      ReadArgs("", "", fileLocation), got.ret, <<>>, ZeroDs)

getLastJobIDCall(t, migrationEvent) ==
    LET got == getLastJobID(migrationEvent) IN
    /\ pc[t] = "idle"
    /\ UNCHANGED <<table, nextId, now, dsCount, setupDs, procOf, warehouseVars, direct>>
    /\ IF got.panic THEN Abort(procOf[t]) ELSE UNCHANGED <<pc, loc, dsListLock>>
    /\ last' = Ended("getLastJobID", "", got.panic, Nil, migrationEvent, got.ret, <<>>, ZeroDs)

----------------------------------------------------------------------------
(* The setup resolver, findOrCreateDsFromSetupCheckpoint, step by step *)

\* The Dataset Selector: jd.getLastDsForExport(dsList) returns the last dataset
\* of the list; jd.getDsForNewEvents(dsList) and jd.getDsForImport(dsList) add a
\* dataset (addNewDS) and return it.  dsList is the list 1..dsList.
SelectorAddsDs(migrationType) == migrationType # ExportOp

SelectedDs(migrationType, dsList, count) ==
    IF SelectorAddsDs(migrationType) THEN [Index |-> count + 1] ELSE [Index |-> dsList]

\* mutant: the call returns the descriptor the Dataset Selector gives now
DsOfSetupEventRecomputed(setupEvent, count) == [Index |-> count]

\* payload := dataSetT{}; json.Unmarshal(setupEvent.Payload, &payload); return payload
DsOfSetupEvent(setupEvent, count) == Unmarshal(setupEvent.Payload)

\* the call before this one, when it was findOrCreateDsFromSetupCheckpoint of
\* the same migration type and returned
CallBefore(migrationType) ==
    IF last.op = "findOrCreate" /\ ~last.fatal /\ last.ev.MigrationType = migrationType
    THEN [called |-> TRUE, path |-> last.path, ds |-> last.ds]
    ELSE NoCallBefore

Step(name, migrationType) ==
    Ended("step", name, FALSE, Nil, ReadArgs(migrationType, "", ""), 0, <<>>, ZeroDs)

\* mutant: the call goes on without waiting for jd.dsListLock
FindLockNoWait(t, migrationType) ==
    /\ pc[t] = "idle"
    /\ dsListLock' = [dsListLock EXCEPT ![procOf[t]] = t]
    /\ loc' = [loc EXCEPT ![t] = [NoLocals EXCEPT !.migrationType = migrationType,
                                                   !.dsList = dsCount,
                                                   !.before = CallBefore(migrationType)]]
    /\ pc' = [pc EXCEPT ![t] = "read"]
    /\ last' = Step("lock", migrationType)
    /\ UNCHANGED <<table, nextId, now, dsCount, setupDs, procOf, warehouseVars, direct>>

\* jd.dsListLock.Lock(); dsList := jd.getDSList(true)
FindLock(t, migrationType) ==
    /\ pc[t] = "idle"
    /\ dsListLock[procOf[t]] = NoThread
    /\ dsListLock' = [dsListLock EXCEPT ![procOf[t]] = t]
    /\ loc' = [loc EXCEPT ![t] = [NoLocals EXCEPT !.migrationType = migrationType,
                                                   !.dsList = dsCount,
                                                   !.before = CallBefore(migrationType)]]
    /\ pc' = [pc EXCEPT ![t] = "read"]
    /\ last' = Step("lock", migrationType)
    /\ UNCHANGED <<table, nextId, now, dsCount, setupDs, procOf, warehouseVars, direct>>

\* setupEvent := jd.GetSetupCheckpoint(migrationType); if setupEvent == nil
FindRead(t) ==
    LET got == GetSetupCheckpoint(table, loc[t].migrationType) IN
    /\ pc[t] = "read"
    /\ UNCHANGED <<table, nextId, now, dsCount, setupDs, procOf, warehouseVars, direct>>
    /\ IF got.panic
       THEN /\ Abort(procOf[t])
            /\ last' = Ended("findOrCreate", "panic", TRUE, Nil,
                              ReadArgs(loc[t].migrationType, "", ""), 0, <<>>, ZeroDs)
       ELSE /\ UNCHANGED dsListLock
            /\ loc' = [loc EXCEPT ![t].setupEvent = got.ev,
                                   ![t].path = IF got.nil THEN "" ELSE "found"]
            /\ pc' = [pc EXCEPT ![t] = IF got.nil THEN "select" ELSE "ret"]
            /\ last' = Step("read", loc[t].migrationType)

\* me := NewSetupCheckpointEvent(...); payload = the Dataset Selector's choice
FindSelect(t) ==
    LET mt == loc[t].migrationType IN
    /\ pc[t] = "select"
    /\ SelectorAddsDs(mt) => dsCount < MaxDs
    /\ loc' = [loc EXCEPT ![t].me = NewSetupCheckpointEvent(mt, NodeID, now),
                           ![t].payload = SelectedDs(mt, loc[t].dsList, dsCount)]
    /\ dsCount' = IF SelectorAddsDs(mt) THEN dsCount + 1 ELSE dsCount
    /\ setupDs' = IF SelectorAddsDs(mt) THEN setupDs \cup {dsCount + 1} ELSE setupDs
    /\ pc' = [pc EXCEPT ![t] = "write"]
    /\ last' = Step("select", mt)
    /\ UNCHANGED <<table, nextId, now, procOf, warehouseVars, dsListLock, direct>>

\* me.Payload, err = json.Marshal(payload); jd.Checkpoint(&me); setupEvent = &me
FindCheckpoint(t) ==
    LET me == [loc[t].me EXCEPT !.Payload = Marshal(loc[t].payload)] IN
    /\ pc[t] = "write"
    /\ nextId <= MaxId
    /\ table' = UpsertRows(table, me, nextId, now)
    /\ nextId' = nextId + 1
    /\ now' = now + 1
    /\ loc' = [loc EXCEPT ![t].me = me, ![t].setupEvent = me,
                           ![t].path = IF ConflictRows(table, me) = {}
                                         THEN "insert" ELSE "conflict"]
    /\ pc' = [pc EXCEPT ![t] = "ret"]
    /\ last' = Step("checkpoint", loc[t].migrationType)
    /\ UNCHANGED <<dsCount, setupDs, procOf, warehouseVars, dsListLock, direct>>

\* json.Unmarshal(setupEvent.Payload, &payload); return payload, and the
\* deferred jd.dsListLock.Unlock()
FindReturn(t) ==
    /\ pc[t] = "ret"
    /\ dsListLock' = [dsListLock EXCEPT ![procOf[t]] = NoThread]
    /\ pc' = [pc EXCEPT ![t] = "idle"]
    /\ loc' = [loc EXCEPT ![t] = NoLocals]
    /\ last' = [Ended("findOrCreate", loc[t].path, FALSE, Nil,
                       ReadArgs(loc[t].migrationType, "", ""), 0, <<>>,
                       DsOfSetupEvent(loc[t].setupEvent, dsCount))
                 EXCEPT !.before = loc[t].before]
    /\ UNCHANGED <<table, nextId, now, dsCount, setupDs, procOf, warehouseVars, direct>>

\* the process dies inside findOrCreateDsFromSetupCheckpoint and is restarted
Crash(p) ==
    /\ \E t \in Threads : procOf[t] = p /\ pc[t] # "idle"
    /\ Abort(p)
    /\ last' = Ended("crash", "", TRUE, Nil, NoEvent, 0, <<>>, ZeroDs)
    /\ UNCHANGED <<table, nextId, now, dsCount, setupDs, procOf, warehouseVars, direct>>

\* the job queue adds a dataset (addNewDS, under jd.dsListLock)
AddNewDS(p) ==
    /\ dsListLock[p] = NoThread
    /\ dsCount < MaxDs
    /\ dsCount' = dsCount + 1
    /\ UNCHANGED <<table, nextId, now, setupDs, procOf, warehouseVars, pc, loc, dsListLock, direct, last>>

----------------------------------------------------------------------------
(* The schedule of a warehouse: ScheduledTimes, step by step, and            *)
(* GetPrevScheduledTime.  A sync frequency is the sequence of its characters, *)
(* a time is counted in minutes, in UTC.                                      *)

\* the minutes of a day: the 1440 of ScheduledTimes, the 24 hours of
\* GetPrevScheduledTime
MinsPerDay == 1440

\* strconv.Atoi(s) with its error dropped: 0 on a syntax error (a range error
\* takes more digits than a sync frequency of the model has)
Atoi(str) ==
    LET signed == str # <<>> /\ str[1] \in {"+", "-"}
        digits == IF signed THEN Tail(str) ELSE str
    IN IF digits = <<>> \/ \E i \in 1..Len(digits) : digits[i] \notin Digits
       THEN 0
       ELSE IF str[1] = "-" THEN -ParseUint(digits) ELSE ParseUint(digits)

\* timeutil.MinsOfDay(syncStartAt): the minutes of "15:04" since midnight
MinsOfDay(syncStartAt) == syncStartAt.Hour * 60 + syncStartAt.Minute

\* fmt.Sprintf(`%s-%s`, syncFrequency, syncStartAt)
CacheKey(syncFrequency, syncStartAt) == <<syncFrequency, syncStartAt>>

\* funk.ReverseInt
ReverseInt(list) == [i \in 1..Len(list) |-> list[Len(list) + 1 - i]]

NoTime == -1
NoStartAt == [Hour |-> 0, Minute |-> 0]
NoSchedArgs == [fn |-> "", syncFrequency |-> <<>>, syncStartAt |-> NoStartAt, currTime |-> NoTime]
NoSchedLocals == [syncStartAtInMin |-> 0, syncFrequencyInMin |-> 0, times |-> <<>>,
                  prependTimes |-> <<>>, counter |-> 0]
NoSchedLast == [fn |-> "none", syncFrequency |-> <<>>, syncStartAt |-> NoStartAt,
                currTime |-> NoTime, times |-> <<>>, cached |-> FALSE, prev |-> NoTime]

ScheduleIdle ==
    /\ scheduledTimesCache = [k \in {} |-> <<>>]
    /\ schedPc = "idle"
    /\ schedArgs = NoSchedArgs
    /\ schedLocals = NoSchedLocals
    /\ schedLast = NoSchedLast

\* what a step of the schedule leaves alone
ScheduleFrame ==
    UNCHANGED <<table, nextId, now, dsCount, setupDs, procOf, pc, loc, dsListLock,
                direct, last, startUploadAlways, nextRetryTimeCache, uploads, whLast>>

\* the entry of ScheduledTimes: the cache lookup, or the locals before the
\* first loop; fn is the function called, ScheduledTimes itself or
\* GetPrevScheduledTime, which calls it first
ScheduledTimesEnter(fn, syncFrequency, syncStartAt, currTime) ==
    LET key == CacheKey(syncFrequency, syncStartAt) IN
    /\ schedPc = "idle"
    /\ key \in DOMAIN scheduledTimesCache \/ Cardinality(DOMAIN scheduledTimesCache) < MaxCache
    /\ schedArgs' = [fn |-> fn, syncFrequency |-> syncFrequency,
                     syncStartAt |-> syncStartAt, currTime |-> currTime]
    /\ IF key \in DOMAIN scheduledTimesCache
       THEN /\ schedLocals' = [NoSchedLocals EXCEPT !.times = scheduledTimesCache[key]]
            /\ schedPc' = "cached"
       ELSE /\ schedLocals' = [syncStartAtInMin |-> MinsOfDay(syncStartAt),
                               syncFrequencyInMin |-> Atoi(syncFrequency),
                               times |-> <<MinsOfDay(syncStartAt)>>,
                               prependTimes |-> <<>>,
                               counter |-> 1]
            /\ schedPc' = "append"
    /\ schedLast' = NoSchedLast
    /\ UNCHANGED scheduledTimesCache
    /\ ScheduleFrame

ScheduledTimesCall(syncFrequency, syncStartAt) ==
    ScheduledTimesEnter("ScheduledTimes", syncFrequency, syncStartAt, NoTime)

GetPrevScheduledTimeCall(syncFrequency, syncStartAt, currTime) ==
    ScheduledTimesEnter("GetPrevScheduledTime", syncFrequency, syncStartAt, currTime)

\* the memory holds no further entry: append fails and the process ends
OutOfMemory(l) == Len(l.times) + Len(l.prependTimes) >= MaxTimes

\* one turn of the first loop: mins := syncStartAtInMin + counter*syncFrequencyInMin
AppendTimes ==
    LET l == schedLocals
        mins == l.syncStartAtInMin + l.counter * l.syncFrequencyInMin IN
    /\ schedPc = "append"
    /\ IF mins >= MinsPerDay
       THEN /\ schedLocals' = [l EXCEPT !.prependTimes = <<>>, !.counter = 1]
            /\ schedPc' = "prepend"
       ELSE IF OutOfMemory(l)
       THEN /\ schedPc' = "oom"
            /\ UNCHANGED schedLocals
       ELSE /\ schedLocals' = [l EXCEPT !.times = Append(l.times, mins),
                                        !.counter = l.counter + 1]
            /\ schedPc' = "append"
    /\ UNCHANGED <<scheduledTimesCache, schedArgs, schedLast>>
    /\ ScheduleFrame

\* one turn of the second loop: mins := syncStartAtInMin - counter*syncFrequencyInMin
PrependTimes ==
    LET l == schedLocals
        mins == l.syncStartAtInMin - l.counter * l.syncFrequencyInMin IN
    /\ schedPc = "prepend"
    /\ IF mins < 0
       THEN /\ UNCHANGED schedLocals
            /\ schedPc' = "store"
       ELSE IF OutOfMemory(l)
       THEN /\ schedPc' = "oom"
            /\ UNCHANGED schedLocals
       ELSE /\ schedLocals' = [l EXCEPT !.prependTimes = Append(l.prependTimes, mins),
                                        !.counter = l.counter + 1]
            /\ schedPc' = "prepend"
    /\ UNCHANGED <<scheduledTimesCache, schedArgs, schedLast>>
    /\ ScheduleFrame

\* times = append(funk.ReverseInt(prependTimes), times...); the cache takes them
StoreTimes ==
    LET times == ReverseInt(schedLocals.prependTimes) \o schedLocals.times
        key == CacheKey(schedArgs.syncFrequency, schedArgs.syncStartAt) IN
    /\ schedPc = "store"
    /\ schedLocals' = [schedLocals EXCEPT !.times = times]
    /\ scheduledTimesCache' =
          [k \in (DOMAIN scheduledTimesCache) \cup {key} |->
              IF k = key THEN times ELSE scheduledTimesCache[k]]
    /\ schedPc' = "computed"
    /\ UNCHANGED <<schedArgs, schedLast>>
    /\ ScheduleFrame

Returns(times, cached, prev) ==
    [fn |-> schedArgs.fn, syncFrequency |-> schedArgs.syncFrequency,
     syncStartAt |-> schedArgs.syncStartAt, currTime |-> schedArgs.currTime,
     times |-> times, cached |-> cached, prev |-> prev]

\* mutant: the loop without the case of the last start time
PrevPosNoLastCase(allStartTimes, currMins, idx, pos) ==
    IF \A i \in 1..Len(allStartTimes) : currMins >= allStartTimes[i]
    THEN 0
    ELSE (CHOOSE i \in 1..Len(allStartTimes) :
             /\ currMins < allStartTimes[i]
             /\ \A j \in 1..(i - 1) : currMins >= allStartTimes[j]) - 2

\* the loop of GetPrevScheduledTime from index idx on (idx and pos count from
\* 0, as in the code)
RECURSIVE PrevPos(_, _, _, _)
PrevPos(allStartTimes, currMins, idx, pos) ==
    IF idx >= Len(allStartTimes) THEN pos
    ELSE IF currMins >= allStartTimes[idx + 1]
         THEN PrevPos(allStartTimes, currMins, idx + 1,
                      IF idx = Len(allStartTimes) - 1 THEN idx ELSE pos)
         ELSE idx - 1

\* timeutil.StartOfDay(now)
StartOfDay(time) == time - (time % MinsPerDay)

\* GetPrevScheduledTime past its call of ScheduledTimes
PrevScheduledTime(allStartTimes, currTime) ==
    LET currMins == currTime % MinsPerDay
        pos == PrevPos(allStartTimes, currMins, 0, 0)
    IN IF pos < 0
       THEN StartOfDay(currTime) - MinsPerDay + allStartTimes[Len(allStartTimes)]
       ELSE StartOfDay(currTime) + allStartTimes[pos + 1]

\* return cachedTimes / return times, and what GetPrevScheduledTime makes of it
ScheduleReturn ==
    /\ schedPc \in {"cached", "computed"}
    /\ schedLast' = Returns(schedLocals.times, schedPc = "cached",
                            IF schedArgs.fn = "GetPrevScheduledTime"
                            THEN PrevScheduledTime(schedLocals.times, schedArgs.currTime)
                            ELSE NoTime)
    /\ schedPc' = "idle"
    /\ schedArgs' = NoSchedArgs
    /\ schedLocals' = NoSchedLocals
    /\ UNCHANGED scheduledTimesCache
    /\ ScheduleFrame

\* the sync frequencies given: "0", "-60", "x", "180", "420", "720", "1440"
Frequencies ==
    {<<"0">>, <<"-", "6", "0">>, <<"x">>, <<"1", "8", "0">>, <<"4", "2", "0">>,
     <<"7", "2", "0">>, <<"1", "4", "4", "0">>}

\* the start times given: "00:00", "01:00", "13:00", "23:59"
StartAts ==
    {[Hour |-> 0, Minute |-> 0], [Hour |-> 1, Minute |-> 0],
     [Hour |-> 13, Minute |-> 0], [Hour |-> 23, Minute |-> 59]}

\* the current times given: on the second day, the minutes around each half hour
CurrTimes == {MinsPerDay + m : m \in {x \in 0..(MinsPerDay - 1) : x % 30 \in {0, 1, 29}}}

InitSchedule ==
    /\ table = {}
    /\ nextId = 1
    /\ now = 0
    /\ dsCount = 1
    /\ setupDs = {}
    /\ procOf = [t \in {"t1"} |-> "p1"]
    /\ pc = [t \in {"t1"} |-> "idle"]
    /\ loc = [t \in {"t1"} |-> NoLocals]
    /\ dsListLock = [p \in {"p1"} |-> NoThread]
    /\ direct = FALSE
    /\ last = NoLast
    /\ ScheduleIdle
    /\ startUploadAlways = FALSE
    /\ nextRetryTimeCache = [w \in {} |-> 0]
    /\ uploads = [u \in {"u1", "u2"} |-> [Status |-> "waiting", LastAttemptAt |-> 0, Attempts |-> 0]]
    /\ whLast = [op |-> "none",
                 upload |-> [Status |-> "waiting", LastAttemptAt |-> 0, Attempts |-> 0],
                 at |-> 0, canStart |-> FALSE]

NextSchedule ==
    \/ \E f \in Frequencies, s \in StartAts : ScheduledTimesCall(f, s)
    \/ \E f \in Frequencies, s \in StartAts, c \in CurrTimes : GetPrevScheduledTimeCall(f, s, c)
    \/ AppendTimes
    \/ PrependTimes
    \/ StoreTimes
    \/ ScheduleReturn

SpecSchedule == InitSchedule /\ [][NextSchedule]_vars

----------------------------------------------------------------------------
(* The retry gate of pending uploads (warehouse/scheduling.go).  Times are     *)
(* counted in units of the clock; 0 is the zero time.Time.                     *)

Warehouses == {"w1"}
Uploads == {"u1", "u2"}

\* the warehouse of an upload
WarehouseOf(u) == "w1"

\* connectionString(warehouse)
connectionString(warehouse) == warehouse

Waiting == "waiting"
ExportingDataFailed == "exporting_data_failed"
ExportedData == "exported_data"

\* strings.Contains(upload.Status, "failed")
hasUploadFailed(status) == status = ExportingDataFailed

\* time.Time.IsZero
IsZero(time) == time = 0

NewUpload == [Status |-> Waiting, LastAttemptAt |-> 0, Attempts |-> 0]

NoWhLast == [op |-> "none", upload |-> NewUpload, at |-> 0, canStart |-> FALSE]

\* the scheduler at rest: nothing cached, every upload new
WarehouseIdle ==
    /\ ScheduleIdle
    /\ startUploadAlways = FALSE
    /\ nextRetryTimeCache = [w \in {} |-> 0]
    /\ uploads = [u \in Uploads |-> NewUpload]
    /\ whLast = NoWhLast

\* backoff.ExponentialBackOff with Multiplier 2 and RandomizationFactor 0:
\* the interval NextBackOff returns on its n-th call after Reset
RECURSIVE NextBackOff(_)
NextBackOff(n) ==
    IF n = 1 THEN minUploadBackoff
    ELSE IF 2 * NextBackOff(n - 1) >= maxUploadBackoff
         THEN maxUploadBackoff
         ELSE 2 * NextBackOff(n - 1)

\* durationBeforeNextAttempt: d keeps its zero value when attempt is 0
durationBeforeNextAttempt(attempt) == IF attempt <= 0 THEN 0 ELSE NextBackOff(attempt)

\* delete(nextRetryTimeCache, key)
MapDelete(map, key) == [k \in (DOMAIN map) \ {key} |-> map[k]]

\* nextRetryTimeCache[key] = value
MapSet(map, key, value) == [k \in (DOMAIN map) \cup {key} |-> IF k = key THEN value ELSE map[k]]

Called(upload, canStart) ==
    [op |-> "canStartPendingUpload", upload |-> upload, at |-> now, canStart |-> canStart]

\* func (wh *HandleT) canStartPendingUpload(upload, warehouse) bool
canStartPendingUpload(u, warehouse) ==
    LET upload == uploads[u]
        key == connectionString(warehouse)
        nextRetryTime == upload.LastAttemptAt + durationBeforeNextAttempt(upload.Attempts)
    IN
    /\ UNCHANGED <<table, nextId, now, dsCount, setupDs, procOf, pc, loc, dsListLock,
                   direct, last, startUploadAlways, uploads, scheduleVars>>
    /\ IF startUploadAlways
       THEN /\ whLast' = Called(upload, TRUE)
            /\ UNCHANGED nextRetryTimeCache
       ELSE IF ~hasUploadFailed(upload.Status)
       THEN /\ whLast' = Called(upload, TRUE)
            /\ UNCHANGED nextRetryTimeCache
       ELSE IF key \in DOMAIN nextRetryTimeCache
       THEN LET canStart == nextRetryTimeCache[key] - now <= 0 IN
            /\ nextRetryTimeCache' = IF canStart THEN MapDelete(nextRetryTimeCache, key)
                                                 ELSE nextRetryTimeCache
            /\ whLast' = Called(upload, canStart)
       ELSE IF IsZero(upload.LastAttemptAt)
       THEN /\ whLast' = Called(upload, TRUE)
            /\ UNCHANGED nextRetryTimeCache
       ELSE LET canStart == nextRetryTime - now <= 0 IN
            /\ nextRetryTimeCache' = IF ~canStart THEN MapSet(nextRetryTimeCache, key, nextRetryTime)
                                                  ELSE nextRetryTimeCache
            /\ whLast' = Called(upload, canStart)

\* func burstRetryCache(warehouse)
burstRetryCache(map, warehouse) == MapDelete(map, connectionString(warehouse))

\* the upload job the gate let through runs: a failed attempt records its time
\* and counts, a successful one calls onSuccessfulUpload(warehouse)
UploadAttempt(u, ok) ==
    /\ whLast.op = "canStartPendingUpload"
    /\ whLast.upload = uploads[u]
    /\ whLast.canStart
    /\ uploads[u].Status # ExportedData
    /\ uploads[u].Attempts < MaxAttempts
    /\ uploads' = [uploads EXCEPT ![u] =
                     [Status |-> IF ok THEN ExportedData ELSE ExportingDataFailed,
                      LastAttemptAt |-> now,
                      Attempts |-> uploads[u].Attempts + 1]]
    /\ nextRetryTimeCache' = IF ok THEN burstRetryCache(nextRetryTimeCache, WarehouseOf(u))
                                   ELSE nextRetryTimeCache
    /\ whLast' = [whLast EXCEPT !.op = "attempt"]
    /\ UNCHANGED <<table, nextId, now, dsCount, setupDs, procOf, pc, loc, dsListLock,
                   direct, last, startUploadAlways, scheduleVars>>

\* the clock goes on
Tick ==
    /\ now < MaxTime
    /\ now' = now + 1
    /\ UNCHANGED <<table, nextId, dsCount, setupDs, procOf, pc, loc, dsListLock,
                   direct, last, warehouseVars>>

InitWarehouse ==
    /\ table = {}
    /\ nextId = 1
    /\ now = 1
    /\ dsCount = 1
    /\ setupDs = {}
    /\ procOf = [t \in {"t1"} |-> "p1"]
    /\ pc = [t \in {"t1"} |-> "idle"]
    /\ loc = [t \in {"t1"} |-> NoLocals]
    /\ dsListLock = [p \in {"p1"} |-> NoThread]
    /\ direct = FALSE
    /\ last = NoLast
    /\ ScheduleIdle
    /\ startUploadAlways \in BOOLEAN
    /\ nextRetryTimeCache = [w \in {} |-> 0]
    /\ uploads = [u \in Uploads |-> NewUpload]
    /\ whLast = NoWhLast

NextWarehouse ==
    \/ \E u \in Uploads : canStartPendingUpload(u, WarehouseOf(u))
    \/ \E u \in Uploads, ok \in BOOLEAN : UploadAttempt(u, ok)
    \/ Tick

SpecWarehouse == InitWarehouse /\ [][NextWarehouse]_vars

----------------------------------------------------------------------------
(* The calls the model makes on the store *)

FileLocations == {"f1", "f2"}
StatusInputs == {SetupForExport, Exported}
StartSeqs == {0, 7}
Txns == {Nil, Tx}

\* an export runs from this node, an import or an acceptance to it
FromNodeOf(mt) == IF mt = ExportOp THEN NodeID ELSE "All"
ToNodeOf(mt) == IF mt = ExportOp THEN "All" ELSE NodeID

\* events to insert: ID = 0
InsertEvents ==
    {NewMigrationEvent(mt, FromNodeOf(mt), ToNodeOf(mt), f, st, sq, now) :
        mt \in MigrationTypes, f \in FileLocations,
        st \in StatusInputs, sq \in StartSeqs}

\* events to update a row by: ID > 0; the UPDATE binds Status, StartSeq and ID
UpdateEvents ==
    {[NewMigrationEvent(ExportOp, NodeID, "All", "f2", st, sq, now) EXCEPT !.ID = id] :
        st \in StatusInputs, sq \in StartSeqs, id \in 1..MaxId}

\* events of a type outside the three
UnsupportedEvents ==
    {[NewMigrationEvent(UnknownOp, NodeID, "All", "f1", Exported, 7, now) EXCEPT !.ID = id] :
        id \in 0..1}

EventInputs == InsertEvents \cup UpdateEvents \cup UnsupportedEvents

Init ==
    /\ table = {}
    /\ nextId = 1
    /\ now = 0
    /\ dsCount = 1
    /\ setupDs = {}
    /\ procOf = [t \in {"t1"} |-> "p1"]
    /\ pc = [t \in {"t1"} |-> "idle"]
    /\ loc = [t \in {"t1"} |-> NoLocals]
    /\ dsListLock = [p \in {"p1"} |-> NoThread]
    /\ direct = FALSE
    /\ WarehouseIdle
    /\ last = NoLast

Next ==
    \/ \E t \in Threads, e \in EventInputs : Checkpoint(t, e)
    \/ \E t \in Threads, e \in EventInputs : CheckpointInTxn(t, Tx, e)
    \/ \E t \in Threads, mt \in MigrationTypes, st \in StatusInputs :
          GetCheckpointsCall(t, mt, st)
    \/ \E t \in Threads, mt \in MigrationTypes : GetSetupCheckpointCall(t, mt)
    \/ \E t \in Threads, f \in FileLocations, mt \in MigrationTypes \cup {UnknownOp} :
          getSeqNoForFileFromDB(t, f, mt)

Spec == Init /\ [][Next]_vars

----------------------------------------------------------------------------
(* The checkpoint store with a store that may report errors *)

StoreErrors == {PrepareError, ExecError}

\* the events of the failing calls: an insert and an update
StoreErrorEvents ==
    {NewMigrationEvent(ExportOp, NodeID, "All", "f1", Exported, 7, now),
     [NewMigrationEvent(ExportOp, NodeID, "All", "f2", Exported, 7, now) EXCEPT !.ID = 1]}

NextStoreError ==
    \/ \E t \in Threads, e \in InsertEvents \cup UpdateEvents : Checkpoint(t, e)
    \/ \E t \in Threads, e \in InsertEvents \cup UpdateEvents : CheckpointInTxn(t, Tx, e)
    \/ \E t \in Threads, txn \in Txns, e \in StoreErrorEvents, failAt \in StoreErrors :
          CheckpointInTxnStoreError(t, txn, e, failAt)

SpecStoreError == Init /\ [][NextStoreError]_vars

----------------------------------------------------------------------------
(* The calls the model makes on the sequence accountant *)

Alphabet == {"_", ".", "-", "1", "7", "x"}

\* the file locations of up to MaxLen characters
BoundedLocations == UNION {[1..n -> Alphabet] : n \in 0..MaxLen}

\* "export_node1_to_node2_42_17.json"
ExampleLocation ==
    <<"e", "x", "p", "o", "r", "t", "_", "n", "o", "d", "e", "1", "_", "t", "o", "_",
      "n", "o", "d", "e", "2", "_", "4", "2", "_", "1", "7", ".", "j", "s", "o", "n">>

LocationInputs == BoundedLocations \cup {ExampleLocation}

SeqInputs == {0, 1, 100, MaxInt64}

SeqEvents ==
    {NewMigrationEvent(ExportOp, NodeID, "All", f, Exported, sq, 0) :
        f \in LocationInputs, sq \in SeqInputs}

\* the event the functions are applied to is drawn at the start
InitSeq ==
    /\ table = {}
    /\ nextId = 1
    /\ now = 0
    /\ dsCount = 1
    /\ setupDs = {}
    /\ procOf = [t \in {"t1"} |-> "p1"]
    /\ pc = [t \in {"t1"} |-> "idle"]
    /\ loc = [t \in {"t1"} |-> NoLocals]
    /\ dsListLock = [p \in {"p1"} |-> NoThread]
    /\ direct = FALSE
    /\ WarehouseIdle
    /\ \E e \in SeqEvents : last = [NoLast EXCEPT !.op = "input", !.ev = e]

NextSeq ==
    \/ \E t \in Threads :
          /\ last.op = "input"
          /\ getNumberOfJobsFromFileLocationCall(t, last.ev.FileLocation)
    \/ \E t \in Threads :
          /\ last.op = "input"
          /\ getLastJobIDCall(t, last.ev)

SpecSeq == InitSeq /\ [][NextSeq]_vars

----------------------------------------------------------------------------
(* The setup resolver next to direct calls of Checkpoint *)

\* the setup events, written by Checkpoint as the resolver writes them
ResolverEvents == {NewSetupCheckpointEvent(mt, NodeID, now) : mt \in MigrationTypes}

\* a row is advanced by its id
AdvanceEvents ==
    {[NewMigrationEvent(ExportOp, NodeID, "All", "f1", Exported, 0, now) EXCEPT !.ID = id] :
        id \in 1..MaxId}

\* a setup status written under the FileLocation of a file
DirectSetupEvents ==
    {NewMigrationEvent(mt, FromNodeOf(mt), ToNodeOf(mt), "f1", SetupStatus(mt), 0, now) :
        mt \in {ExportOp, AcceptNewEventsOp}}

Procs == {procOf[t] : t \in Threads}

NextSetup ==
    \/ \E t \in Threads, mt \in MigrationTypes : FindLock(t, mt)
    \/ \E t \in Threads : FindRead(t)
    \/ \E t \in Threads : FindSelect(t)
    \/ \E t \in Threads : FindCheckpoint(t)
    \/ \E t \in Threads : FindReturn(t)
    \/ \E p \in Procs : Crash(p)
    \/ \E p \in Procs : AddNewDS(p)
    \/ \E t \in Threads, e \in ResolverEvents \cup AdvanceEvents \cup DirectSetupEvents :
          Checkpoint(t, e)

SpecSetup == Init /\ [][NextSetup]_vars

----------------------------------------------------------------------------
(* Every operation on the log: the writes, the setup resolver and the reads *)

LogEvents == ResolverEvents \cup AdvanceEvents \cup DirectSetupEvents

NextLog ==
    \/ \E t \in Threads, mt \in MigrationTypes : FindLock(t, mt)
    \/ \E t \in Threads : FindRead(t)
    \/ \E t \in Threads : FindSelect(t)
    \/ \E t \in Threads : FindCheckpoint(t)
    \/ \E t \in Threads : FindReturn(t)
    \/ \E t \in Threads, e \in LogEvents : Checkpoint(t, e)
    \/ \E t \in Threads, e \in LogEvents : CheckpointInTxn(t, Tx, e)
    \/ \E t \in Threads, mt \in MigrationTypes, st \in StatusInputs :
          GetCheckpointsCall(t, mt, st)
    \/ \E t \in Threads, mt \in MigrationTypes : GetSetupCheckpointCall(t, mt)
    \/ \E t \in Threads, f \in FileLocations, mt \in MigrationTypes :
          getSeqNoForFileFromDB(t, f, mt)

SpecLog == Init /\ [][NextLog]_vars

----------------------------------------------------------------------------
(* The setup resolver alone, with crashes: nothing else writes to the log *)

NextCrash ==
    \/ \E t \in Threads, mt \in MigrationTypes : FindLock(t, mt)
    \/ \E t \in Threads : FindRead(t)
    \/ \E t \in Threads : FindSelect(t)
    \/ \E t \in Threads : FindCheckpoint(t)
    \/ \E t \in Threads : FindReturn(t)
    \/ \E p \in Procs : Crash(p)
    \/ \E p \in Procs : AddNewDS(p)

SpecCrash == Init /\ [][NextCrash]_vars

----------------------------------------------------------------------------
(* Claims about the checkpoint store, checked under Spec *)

\* a call of Checkpoint / CheckpointInTxn that returned
Returned(l) == l.op = "Checkpoint" /\ ~l.fatal

RowsOfFile(tbl, f) == {r \in tbl : r.file_location = f}

\* C1 (upsert idempotence): when Checkpoint(e1) and then Checkpoint(e2) have
\* returned, both with ID = 0 and the same FileLocation, the log holds exactly
\* one row with that FileLocation and its Status is e2.Status.
C1_UpsertIdempotent ==
    [][(/\ Returned(last) /\ last.ev.ID = 0
        /\ Returned(last') /\ last'.ev.ID = 0
        /\ last'.ev.FileLocation = last.ev.FileLocation)
       => /\ Cardinality(RowsOfFile(table', last'.ev.FileLocation)) = 1
          /\ \A r \in RowsOfFile(table', last'.ev.FileLocation) :
                r.status = last'.ev.Status]_vars

\* two INSERTs were run, the second hit the row of the first and changed its status
C1_Witness ==
    /\ last.op = "Checkpoint" /\ last.path = "conflict"
    /\ nextId = 3 /\ Cardinality(table) = 1
    /\ \A r \in table : r.status = Exported /\ r.migration_type # last.ev.MigrationType

\* C2 (frame of the conflict branch): a call with ID = 0 whose FileLocation is
\* already in the log changes the Status of that row and nothing else: the
\* row keeps its id, MigrationType, FromNode, ToNode, FileLocation, StartSeq,
\* Payload and TimeStamp, every other row is as it was, no row is added, and
\* the call returns the id of that row.
C2_ConflictFrame ==
    [][(/\ Returned(last') /\ last'.ev.ID = 0
        /\ RowsOfFile(table, last'.ev.FileLocation) # {})
       => \E old \in RowsOfFile(table, last'.ev.FileLocation) :
            /\ table' = (table \ {old}) \cup {[old EXCEPT !.status = last'.ev.Status]}
            /\ Cardinality(table') = Cardinality(table)
            /\ last'.ret = old.id]_vars

\* the conflict branch ran on a row that differs from the event in every
\* column the event carries, next to another row
C2_Witness ==
    /\ last.op = "Checkpoint" /\ last.path = "conflict" /\ last.ev.ID = 0
    /\ Cardinality(table) = 2
    /\ \E r \in RowsOfFile(table, last.ev.FileLocation) :
          /\ r.id = last.ret
          /\ r.status = last.ev.Status
          /\ r.migration_type # last.ev.MigrationType
          /\ r.from_node # last.ev.FromNode
          /\ r.to_node # last.ev.ToNode
          /\ r.start_sequence # last.ev.StartSeq
          /\ r.time_stamp < now - 1

\* C3, as claimed: every call with ID > 0 that returns has set Status and
\* StartSeq of the row with that id, changed nothing else, added no row, and
\* returned that id.
C3_UpdateById ==
    [][(Returned(last') /\ last'.ev.ID > 0)
       => /\ last'.ret = last'.ev.ID
          /\ table' = {IF r.id = last'.ev.ID
                         THEN [r EXCEPT !.status = last'.ev.Status,
                                        !.start_sequence = last'.ev.StartSeq]
                         ELSE r : r \in table}
          /\ Cardinality(table') = Cardinality(table)]_vars

\* C9: GetCheckpoints(type, status) returns exactly the rows of that type
\* that now carry that status, each once, by strictly ascending ID.
C9_GetCheckpointsExactAscending ==
    last.op = "GetCheckpoints" =>
        LET evs == last.events IN
        /\ \A i, j \in 1..Len(evs) : i < j => evs[i].ID < evs[j].ID
        /\ {evs[i] : i \in 1..Len(evs)} =
             {ScanEvent(r) : r \in {x \in table :
                 /\ x.migration_type = last.ev.MigrationType
                 /\ x.status = last.ev.Status}}

\* two rows came back, ids 1 and 3 (the sequence value 2 went to a conflict)
C9_Witness ==
    /\ last.op = "GetCheckpoints"
    /\ Len(last.events) = 2
    /\ last.events[1].ID = 1 /\ last.events[2].ID = 3

\* C10: a call of Checkpoint, CheckpointInTxn or getSeqNoForFileFromDB with a
\* migration type outside {export, import, acceptNewEvents} ends in a panic
\* and leaves the log as it was.
C10_UnknownTypeFailsFast ==
    [][(/\ last'.op \in {"Checkpoint", "getSeqNoForFileFromDB"}
        /\ last'.ev.MigrationType \notin {ExportOp, ImportOp, AcceptNewEventsOp})
       => /\ last'.fatal
          /\ table' = table
          /\ nextId' = nextId]_vars

\* an insert of an unknown type was refused in front of a log that holds rows
C10_Witness ==
    /\ last.op = "Checkpoint" /\ last.fatal
    /\ last.ev.MigrationType = UnknownOp /\ last.ev.ID = 0
    /\ table # {}

\* C8: GetSetupCheckpoint(migrationType) returns nothing when no row has that
\* type and its setup status, that row when there is exactly one, and panics
\* when there are two or more.
C8_SetupStatusOf(mt) ==
    CASE mt = ExportOp -> SetupForExport
      [] mt = AcceptNewEventsOp -> SetupToAcceptNewEvents
      [] mt = ImportOp -> SetupForImport

C8_SetupRows(tbl, mt) ==
    {r \in tbl : r.migration_type = mt /\ r.status = C8_SetupStatusOf(mt)}

C8_GetSetupCheckpoint ==
    last.op = "GetSetupCheckpoint" =>
        LET rows == C8_SetupRows(table, last.ev.MigrationType) IN
        /\ Cardinality(rows) = 0 => (~last.fatal /\ last.events = <<>>)
        /\ Cardinality(rows) = 1 =>
             (~last.fatal /\ \E r \in rows : last.events = <<ScanEvent(r)>>)
        /\ Cardinality(rows) >= 2 => (last.fatal /\ last.events = <<>>)

\* two setup rows of one type were in the log and the call ended in the panic
C8_Witness ==
    /\ last.op = "GetSetupCheckpoint" /\ last.fatal
    /\ Cardinality(C8_SetupRows(table, last.ev.MigrationType)) = 2

\* the rows a sequence lookup is about
C12_RowsOf(tbl, f, mt) == {r \in tbl : r.file_location = f /\ r.migration_type = mt}

\* the call returned the StartSeq of the row with the highest id among those of
\* its FileLocation and MigrationType, or 0 when there is none
C12_ReturnsLatestStartSeq(l) ==
    LET rows == C12_RowsOf(table, l.ev.FileLocation, l.ev.MigrationType) IN
    /\ ~l.fatal
    /\ rows = {} => l.ret = 0
    /\ rows # {} => \E r \in rows : /\ \A x \in rows : x.id <= r.id
                                     /\ l.ret = r.start_sequence

\* C12, as claimed: for every migration type in {export, import,
\* acceptNewEvents} and every FileLocation, getSeqNoForFileFromDB returns the
\* StartSeq of the latest row of that FileLocation and type, and 0 when there
\* is no such row.
C12_SeqNoForFile ==
    (last.op = "getSeqNoForFileFromDB" /\ last.ev.MigrationType \in MigrationTypes)
    => C12_ReturnsLatestStartSeq(last)

\* C12, amended: the same for the migration types export and import; a call
\* with acceptNewEvents ends in a panic.
C12_SeqNoForFileExportImport ==
    last.op = "getSeqNoForFileFromDB" =>
        /\ last.ev.MigrationType \in {ExportOp, ImportOp} => C12_ReturnsLatestStartSeq(last)
        /\ last.ev.MigrationType = AcceptNewEventsOp => last.fatal

\* the lookup returned the StartSeq of an import row, next to an export row
\* with another StartSeq
C12_Witness ==
    /\ last.op = "getSeqNoForFileFromDB" /\ ~last.fatal
    /\ last.ev.MigrationType = ImportOp /\ last.ret = 7
    /\ \E r \in table : r.migration_type = ExportOp /\ r.start_sequence = 0

----------------------------------------------------------------------------
(* Two threads of one process in the setup resolver, next to direct calls *)

InitThreads ==
    /\ table = {}
    /\ nextId = 1
    /\ now = 0
    /\ dsCount = 1
    /\ setupDs = {}
    /\ procOf = [t \in {"t1", "t2"} |-> "p1"]
    /\ pc = [t \in {"t1", "t2"} |-> "idle"]
    /\ loc = [t \in {"t1", "t2"} |-> NoLocals]
    /\ dsListLock = [p \in {"p1"} |-> NoThread]
    /\ direct = FALSE
    /\ WarehouseIdle
    /\ last = NoLast

NextThreads ==
    \/ \E t \in Threads, mt \in MigrationTypes : FindLock(t, mt)
    \/ \E t \in Threads : FindRead(t)
    \/ \E t \in Threads : FindSelect(t)
    \/ \E t \in Threads : FindCheckpoint(t)
    \/ \E t \in Threads : FindReturn(t)
    \/ \E t \in Threads, e \in DirectSetupEvents : Checkpoint(t, e)

SpecThreads == InitThreads /\ [][NextThreads]_vars

----------------------------------------------------------------------------
(* Two processes, each with its own lock, on one checkpoint table *)

InitProcs ==
    /\ table = {}
    /\ nextId = 1
    /\ now = 0
    /\ dsCount = 1
    /\ setupDs = {}
    /\ procOf = [t \in {"t1", "t2"} |-> IF t = "t1" THEN "p1" ELSE "p2"]
    /\ pc = [t \in {"t1", "t2"} |-> "idle"]
    /\ loc = [t \in {"t1", "t2"} |-> NoLocals]
    /\ dsListLock = [p \in {"p1", "p2"} |-> NoThread]
    /\ direct = FALSE
    /\ WarehouseIdle
    /\ last = NoLast

NextProcs ==
    \/ \E t \in Threads, mt \in MigrationTypes : FindLock(t, mt)
    \/ \E t \in Threads : FindRead(t)
    \/ \E t \in Threads : FindSelect(t)
    \/ \E t \in Threads : FindCheckpoint(t)
    \/ \E t \in Threads : FindReturn(t)

SpecProcs == InitProcs /\ [][NextProcs]_vars

\* the status lineage of a migration type
C19_Lineage(mt) ==
    CASE mt = ExportOp -> {SetupForExport, Exported, Notified, Completed}
      [] mt = AcceptNewEventsOp -> {SetupToAcceptNewEvents}
      [] mt = ImportOp -> {SetupForImport, PreparedForImport, Imported}
      [] OTHER -> {}

\* C19, as claimed: in every reachable state of the log the Status of each row
\* belongs to the status lineage of the row's MigrationType.
C19_StatusLineage ==
    \A r \in table : r.status \in C19_Lineage(r.migration_type)

----------------------------------------------------------------------------
(* Claims about the sequence accountant, checked under SpecSeq *)

\* C13: getLastJobID returns 0 for every event with StartSeq = 0, whatever its
\* FileLocation (also one getNumberOfJobsFromFileLocation panics on), and
\* otherwise, where getNumberOfJobsFromFileLocation returns, StartSeq plus that
\* count minus 1 in int64 arithmetic: 116 for StartSeq 100 and
\* "export_node1_to_node2_42_17.json".
C13_LastJobID ==
    last.op = "getLastJobID" =>
        LET n == getNumberOfJobsFromFileLocation(last.ev.FileLocation) IN
        /\ last.ev.StartSeq = 0 => (~last.fatal /\ last.ret = 0)
        /\ (last.ev.StartSeq # 0 /\ ~n.panic)
             => (~last.fatal /\ last.ret = WrapInt64(last.ev.StartSeq + n.ret - 1))
        /\ (last.ev.StartSeq = 100 /\ last.ev.FileLocation = ExampleLocation)
             => last.ret = 116

\* the example of the design: StartSeq 100, count token 17
C13_Witness ==
    /\ last.op = "getLastJobID" /\ ~last.fatal
    /\ last.ev.StartSeq = 100 /\ last.ev.FileLocation = ExampleLocation
    /\ last.ret = 116

\* the tokens of a file location, as the spans <<first, last>> of the maximal
\* runs of characters other than '_' and '.'
C14_IsDelimiter(c) == c \in {"_", "."}

C14_TokenSpans(str) ==
    {sp \in (1..Len(str)) \X (1..Len(str)) :
        /\ sp[1] <= sp[2]
        /\ \A k \in sp[1]..sp[2] : ~C14_IsDelimiter(str[k])
        /\ sp[1] = 1 \/ C14_IsDelimiter(str[sp[1] - 1])
        /\ sp[2] = Len(str) \/ C14_IsDelimiter(str[sp[2] + 1])}

\* the token is the decimal numeral of n
RECURSIVE C14_IsNumeral(_, _)
C14_IsNumeral(tok, n) ==
    /\ tok # <<>>
    /\ tok[Len(tok)] \in Digits
    /\ DigitValue(tok[Len(tok)]) = n % 10
    /\ IF Len(tok) = 1 THEN n < 10
       ELSE C14_IsNumeral(SubSeq(tok, 1, Len(tok) - 1), n \div 10)

\* C14, as claimed: for every file location, getNumberOfJobsFromFileLocation
\* returns, and what it returns is the second-to-last of the tokens that
\* splitting on '_' and '.' gives, read as an integer.
C14_JobCountFromFileLocation ==
    last.op = "getNumberOfJobsFromFileLocation" =>
        LET str == last.ev.FileLocation
            spans == C14_TokenSpans(str) IN
        /\ ~last.fatal
        /\ \E sp \in spans :
              /\ Cardinality({q \in spans : q[1] > sp[1]}) = 1
              /\ \A n \in 0..MaxInt64 :
                    C14_IsNumeral(SubSeq(str, sp[1], sp[2]), n) => last.ret = n

\* the example of the design: the count token 17 came back
C14_Witness ==
    /\ last.op = "getNumberOfJobsFromFileLocation" /\ ~last.fatal
    /\ last.ev.FileLocation = ExampleLocation /\ last.ret = 17

\* C14 where there are two tokens or more: the call returns the second-to-last
\* token read as an integer
C14_JobCountOfTwoTokens ==
    (last.op = "getNumberOfJobsFromFileLocation"
        /\ Cardinality(C14_TokenSpans(last.ev.FileLocation)) >= 2) =>
        LET str == last.ev.FileLocation
            spans == C14_TokenSpans(str) IN
        /\ ~last.fatal
        /\ \E sp \in spans :
              /\ Cardinality({q \in spans : q[1] > sp[1]}) = 1
              /\ \A n \in 0..MaxInt64 :
                    C14_IsNumeral(SubSeq(str, sp[1], sp[2]), n) => last.ret = n

----------------------------------------------------------------------------
(* Claims about store errors, checked under SpecStoreError *)

\* C11, as claimed: when the store reports an error to CheckpointInTxn, on
\* Prepare or on running the statement, a call with a transaction returns (the
\* process is not aborted) and a call without one ends in a panic.  The error
\* value has no place in the int64 the function returns; the formula states the
\* part of the claim about the abort.
C11_StoreErrorPolicy ==
    [][(last'.op = "Checkpoint" /\ last'.path \in StoreErrors)
       => IF last'.txn = Tx THEN ~last'.fatal ELSE last'.fatal]_vars

\* a statement failed inside a transaction in front of a log that holds rows,
\* and the call returned 0
C11_Witness ==
    /\ last.op = "Checkpoint" /\ last.path = ExecError /\ last.txn = Tx
    /\ ~last.fatal /\ last.ret = 0 /\ table # {}

\* C18, as claimed: every id a call of Checkpoint / CheckpointInTxn returns is
\* the id of a row that is in the log after the call and carries the Status of
\* the event, also when the event's ID > 0 names no row and when the statement
\* of a supplied transaction fails.
C18_ReturnedIdIsRow ==
    [][Returned(last')
       => \E r \in table' : r.id = last'.ret /\ r.status = last'.ev.Status]_vars

----------------------------------------------------------------------------
(* Claims about the log as a whole, checked under SpecLog *)

\* C15: the log is never deleted from: over every step of Checkpoint,
\* CheckpointInTxn, findOrCreateDsFromSetupCheckpoint and the reads, every row
\* of the log is in the log after the step under the same id, with the
\* MigrationType, FromNode, ToNode, FileLocation and Payload it had (which are
\* those it was inserted with).
C15_NeverDeleted ==
    [][\A r \in table : \E x \in table' :
          /\ x.id = r.id
          /\ x.migration_type = r.migration_type
          /\ x.from_node = r.from_node
          /\ x.to_node = r.to_node
          /\ x.file_location = r.file_location
          /\ x.payload = r.payload]_vars

\* a row was updated by its id after one INSERT had hit a conflict, and both
\* rows of the log are there
C15_Witness ==
    /\ last.op = "Checkpoint" /\ last.path = "update"
    /\ nextId = 4 /\ Cardinality(table) = 2
    /\ \E r \in table : r.id = last.ev.ID /\ r.payload # EmptyObject

----------------------------------------------------------------------------
(* Claims about the setup resolver, checked under SpecSetup *)

SetupRows(tbl, mt) == C8_SetupRows(tbl, mt)

\* a call of findOrCreateDsFromSetupCheckpoint that returned
Resolved(l) == l.op = "findOrCreate" /\ ~l.fatal

C5_RecoveryPath ==
    [][\A t \in Threads :
        LET mt == loc[t].migrationType IN
        /\ (pc[t] = "idle" /\ pc'[t] = "read") => table' = table
        /\ (pc[t] = "read" /\ last'.op = "step" /\ Cardinality(SetupRows(table, mt)) = 1)
             => (pc'[t] = "ret" /\ loc'[t].path = "found" /\ table' = table)
        /\ (pc[t] = "ret" /\ loc[t].path = "found" /\ last'.op = "findOrCreate")
             => /\ table' = table /\ nextId' = nextId
                /\ Cardinality(SetupRows(table, mt)) = 1
                /\ \A r \in SetupRows(table, mt) : last'.ds = Unmarshal(r.payload)]_vars

\* the stored descriptor came back although the last dataset, which
\* getLastDsForExport would pick now, is another one
C5_Witness ==
    /\ Resolved(last) /\ last.path = "found"
    /\ last.ev.MigrationType = ExportOp
    /\ last.ds.Index = 1 /\ dsCount = 2

\* C6, as claimed: in every reachable state at most one row per migration
\* type carries that type's setup status.
C6_AtMostOneSetupRow ==
    \A mt \in MigrationTypes : Cardinality(SetupRows(table, mt)) <= 1

\* C6, amended: the same, as long as every call of Checkpoint / CheckpointInTxn
\* whose event carries a setup status has ID = 0 and that status as
\* FileLocation, as NewSetupCheckpointEvent builds it.
C6_AtMostOneSetupRowByProtocol ==
    ~direct => \A mt \in MigrationTypes : Cardinality(SetupRows(table, mt)) <= 1

\* a setup event was written again over its own row, next to another row
C6_Witness ==
    /\ ~direct
    /\ last.op = "Checkpoint" /\ last.path = "conflict"
    /\ last.ev.Status \in SetupStatuses
    /\ Cardinality(table) >= 2
    /\ Cardinality(SetupRows(table, last.ev.MigrationType)) = 1

\* C7, as claimed (checked under SpecCrash): once a call of
\* findOrCreateDsFromSetupCheckpoint has returned, after whatever crashes and
\* restarts, every dataset the Dataset Selector created during a setup is the
\* one a setup checkpoint records.
C7_NoOrphanedDataset ==
    Resolved(last) =>
        \A d \in setupDs :
            \E r \in table : r.status \in SetupStatuses /\ Unmarshal(r.payload).Index = d

----------------------------------------------------------------------------
(* Claims about concurrent calls of the setup resolver *)

\* the threads of process p that are inside findOrCreateDsFromSetupCheckpoint,
\* past the Lock
Inside(p) == {t \in Threads : procOf[t] = p /\ pc[t] # "idle"}

\* C16 (checked under SpecThreads): within one process at most one thread is
\* between the Lock and the return of findOrCreateDsFromSetupCheckpoint, so no
\* two calls both read "absent" and both create; that thread holds
\* jd.dsListLock; and whenever no call is under way, also after a call ended in
\* a panic, the lock is free.
C16_LockScope ==
    \A p \in Procs :
        /\ Cardinality(Inside(p)) <= 1
        /\ \A t \in Inside(p) : dsListLock[p] = t
        /\ Inside(p) = {} => dsListLock[p] = NoThread

\* a call ended in the panic of GetSetupCheckpoint, and the other thread of the
\* process took the lock after it
C16_Witness ==
    /\ Cardinality(Threads) = 2 /\ Cardinality(Procs) = 1
    /\ \E mt \in MigrationTypes : Cardinality(SetupRows(table, mt)) = 2
    /\ pc["t1"] = "idle" /\ pc["t2"] = "read" /\ dsListLock["p1"] = "t2"

\* C17, as claimed (checked under SpecProcs): when two processes run
\* findOrCreateDsFromSetupCheckpoint for one migration type, at every return
\* the log holds exactly one setup row of that type and the descriptor
\* returned is the one stored in the Payload of that row.
C17_TwoProcessesAgree ==
    Resolved(last) =>
        /\ Cardinality(SetupRows(table, last.ev.MigrationType)) = 1
        /\ \A r \in SetupRows(table, last.ev.MigrationType) :
              last.ds = Unmarshal(r.payload)

----------------------------------------------------------------------------
(* Claims about the retry gate, checked under SpecWarehouse *)

\* C20, as claimed: with startUploadAlways false, a call of
\* canStartPendingUpload for an upload in a failed status with a non-zero
\* LastAttemptAt returns true only at or after that upload's LastAttemptAt +
\* durationBeforeNextAttempt(Attempts).
C20_NoEarlyRetry ==
    (/\ whLast.op = "canStartPendingUpload" /\ whLast.canStart
     /\ ~startUploadAlways
     /\ hasUploadFailed(whLast.upload.Status)
     /\ ~IsZero(whLast.upload.LastAttemptAt))
    => whLast.at >= whLast.upload.LastAttemptAt
                      + durationBeforeNextAttempt(whLast.upload.Attempts)

\* a failed upload was held back, cached, and let through when its time came
C20_Witness ==
    /\ whLast.op = "canStartPendingUpload" /\ whLast.canStart
    /\ ~startUploadAlways
    /\ hasUploadFailed(whLast.upload.Status)
    /\ whLast.upload.Attempts = 2
    /\ whLast.at = whLast.upload.LastAttemptAt + 2
    /\ nextRetryTimeCache = [w \in {} |-> 0]

----------------------------------------------------------------------------
(* Claims about the schedule, checked under SpecSchedule *)

\* C21: whenever GetPrevScheduledTime returns, it returns the closest scheduled
\* time not after the current time: the greatest entry of ScheduledTimes at or
\* before the current minute, on the UTC day of the current time, or, when the
\* current minute is before every entry, the last entry of ScheduledTimes on
\* the day before.
C21_PrevScheduledTime ==
    schedLast.fn = "GetPrevScheduledTime" =>
        LET all == schedLast.times
            entries == {all[i] : i \in 1..Len(all)}
            minute == schedLast.currTime % 1440
            day == schedLast.currTime - minute
            atOrBefore == {e \in entries : e <= minute}
        IN /\ schedLast.prev <= schedLast.currTime
           /\ atOrBefore # {} =>
                 \E e \in atOrBefore : /\ \A x \in atOrBefore : x <= e
                                        /\ schedLast.prev = day + e
           /\ atOrBefore = {} => schedLast.prev = day - 1440 + all[Len(all)]

\* syncing every 3 hours from 13:00: at 00:30 the previous scheduled time is
\* 22:00 of the day before
C21_Witness ==
    /\ schedLast.fn = "GetPrevScheduledTime"
    /\ schedLast.syncFrequency = <<"1", "8", "0">>
    /\ schedLast.syncStartAt = [Hour |-> 13, Minute |-> 0]
    /\ schedLast.currTime = 1440 + 30
    /\ schedLast.prev = 22 * 60

\* C22, as claimed: ScheduledTimes terminates for every input, also for a sync
\* frequency that is "0", negative or no number: no call ends with the memory
\* used up by its list, and the list a call returns is ascending, of minutes
\* within [0, 1440).
C22_ScheduledTimesTerminates ==
    /\ schedPc # "oom"
    /\ schedLast.fn # "none" =>
          LET all == schedLast.times IN
          /\ \A i \in 1..Len(all) : 0 <= all[i] /\ all[i] < 1440
          /\ \A i, j \in 1..Len(all) : i < j => all[i] < all[j]

\* syncing every 3 hours from 13:00: the eight start times of the day
C22_Witness ==
    /\ schedLast.fn = "ScheduledTimes" /\ ~schedLast.cached
    /\ schedLast.times = <<60, 240, 420, 600, 780, 960, 1140, 1320>>

\* C22 for the sync frequencies that are positive numbers: the call returns
\* and its list is ascending, of minutes within [0, 1440)
C22_PositiveFrequency ==
    /\ (schedPc = "oom" => Atoi(schedArgs.syncFrequency) <= 0)
    /\ schedLast.fn # "none" =>
          LET all == schedLast.times IN
          /\ Atoi(schedLast.syncFrequency) > 0
          /\ \A i \in 1..Len(all) : 0 <= all[i] /\ all[i] < 1440
          /\ \A i, j \in 1..Len(all) : i < j => all[i] < all[j]

====
